---- MODULE Spec2Model ----
(***************************************************************************)
(* usePopcorn: the App component (selection, query, watched list), the     *)
(* MovieDetails component (detail fetch effect, rating, add to list), the  *)
(* WatchedSummary aggregate and the useLocalStorageState hook.             *)
(*                                                                         *)
(* One action is one browser event handled to completion: the handler,    *)
(* the synchronous re-render it causes and the effects of that render      *)
(* (React flushes the effects of a discrete event before the next event).  *)
(* The only suspension points are the two awaits of getMovieDetails, so a  *)
(* request in flight is state and its settlement is an action.             *)
(*                                                                         *)
(* Left out: the Box around the result list (its isOpen only hides the     *)
(* list, and can always be opened again), the document title effect, and   *)
(* the second run of every effect that React.StrictMode adds in            *)
(* development builds.  Sums that JavaScript rounds are exact here.        *)
(***************************************************************************)
EXTENDS Integers, Sequences, FiniteSets, TLC

VARIABLES
    phase,        \* "start" (page loaded, App not rendered), "running", "crashed"
    storage,      \* localStorage item "watched"
    watched,      \* App: watched (useLocalStorageState value)
    query,        \* App: query
    selectedId,   \* App: selectedId, "" is no selection
    isOpen,       \* Box (the one holding MovieDetails / the watched list): isOpen
    movie,        \* MovieDetails: movie
    isLoading,    \* MovieDetails: isLoading
    userRating,   \* MovieDetails: userRating
    countRef,     \* MovieDetails: countRef.current
    inflight,     \* getMovieDetails calls suspended at an await
    orphans,      \* suspended getMovieDetails calls of an unmounted MovieDetails
    unhandled,    \* a getMovieDetails promise was rejected with nobody catching it
    lastOp        \* the event handled last

vars == <<phase, storage, watched, query, selectedId, isOpen, movie, isLoading,
          userRating, countRef, inflight, orphans, unhandled, lastOp>>

\* ------------------------------------------------------------------ bounds

\* Requests that may be suspended at the same time.
MaxInflight == 2
\* Rating changes counted by countRef in one detail view.
MaxDecisions == 1

\* ------------------------------------------------------- JavaScript values

\* A text field that is not there reads as undefined.
UNDEFINED == "undefined"

Num(n) == [t |-> "number", v |-> n]
NaN == [t |-> "NaN", v |-> 0]
Null == [t |-> "null", v |-> 0]

\* -------------------------------------------------------------- remote API

\* Identifiers the search results carry; a result without imdbID passes "".
Ids == {"tt1", "tt2"}

Queries == {"", "star"}

\* Ratings the user gives: StarRating calls onSetRating with 1..maxRating.
maxRating == 10
Stars == {r \in {3, 8} : r \in 1..maxRating}

\* The lookup's payload for a known identifier. imdbRating is text holding a
\* decimal; the model keeps decimals in tenths.
DetailOf(id) ==
    IF id = "tt1"
    THEN [imdbID |-> "tt1", Title |-> "Inception", Year |-> "2010",
          Poster |-> "p1.jpg", Runtime |-> "148 min", imdbRating |-> "8.8"]
    ELSE [imdbID |-> "tt2", Title |-> "Back Lot", Year |-> "1999",
          Poster |-> "p2.jpg", Runtime |-> "N/A", imdbRating |-> "6.0"]

\* The payload {Response: "False", Error: "..."} the API answers a lookup it
\* cannot serve with: none of the fields MovieDetails reads is there.
ErrorPayload ==
    [imdbID |-> UNDEFINED, Title |-> UNDEFINED, Year |-> UNDEFINED,
     Poster |-> UNDEFINED, Runtime |-> UNDEFINED, imdbRating |-> UNDEFINED]

\* useState<MovieDetails>({})
EmptyMovie == ErrorPayload

\* How a lookup can settle: a record, the API's error payload (also what a
\* non-success status carries), fetch rejecting, res.json() rejecting.
Outcomes == {"record", "errorPayload", "networkError", "badJson"}

\* ------------------------------------------------------------ conversions

\* runtime?.split(" ")[0]
SplitFirst(text) ==
    CASE text = "148 min" -> "148"
      [] text = "N/A" -> "N/A"
      [] OTHER -> UNDEFINED

\* Number(x) for the texts the payloads hold; Number(undefined) and
\* Number("N/A") are NaN. Decimals are in tenths.
ToNumber(text) ==
    CASE text = "148" -> Num(148)
      [] text = "8.8" -> Num(88)
      [] text = "6.0" -> Num(60)
      [] OTHER -> NaN

\* JSON.stringify of a number: NaN is written as null.
StringifyNumber(x) == IF x.t = "NaN" THEN Null ELSE x

\* JSON.stringify of one entry; a key whose value is undefined is left out
\* and reads as undefined after parsing.
StringifyEntry(e) ==
    [imdbID |-> e.imdbID, Title |-> e.Title, Year |-> e.Year, Poster |-> e.Poster,
     runtime |-> StringifyNumber(e.runtime),
     imdbRating |-> StringifyNumber(e.imdbRating),
     userRating |-> e.userRating,
     countRatingDecisions |-> e.countRatingDecisions]

\* localStorage.setItem(key, JSON.stringify(value))
JSONStringify(list) ==
    [kind |-> "json", val |-> [i \in 1..Len(list) |-> StringifyEntry(list[i])]]

\* JSON.parse throws on text that is not JSON.
ParseThrows(item) == item.kind = "corrupt"

\* JSON.parse(localStorage.getItem(key)!) ?? initialState, when it does not
\* throw: getItem gives null for a missing key and JSON.parse(null) is null.
LoadValue(item, initialState) ==
    IF item.kind = "absent" THEN initialState ELSE item.val

\* ------------------------------------------------------------- aggregate

\* x ?? 0
OrZero(x) == IF x.t = "null" THEN Num(0) ELSE x

RECURSIVE SumFrom(_, _)
\* reduce((acc, cur) => acc + cur / arr.length, 0), held as a fraction over
\* arr.length: the numerator after the elements from i on, NaN once any
\* element is NaN.
SumFrom(arr, i) ==
    IF i > Len(arr) THEN Num(0)
    ELSE LET rest == SumFrom(arr, i + 1)
         IN IF arr[i].t = "NaN" \/ rest.t = "NaN" THEN NaN
            ELSE Num(arr[i].v + rest.v)

average(arr) ==
    LET s == SumFrom(arr, 1)
    IN [t |-> s.t, num |-> s.v, den |-> IF Len(arr) = 0 THEN 1 ELSE Len(arr)]

WatchedSummary(list) ==
    [count |-> Len(list),
     avgImdbRating |-> average([i \in 1..Len(list) |-> OrZero(list[i].imdbRating)]),
     avgUserRating |-> average([i \in 1..Len(list) |-> Num(list[i].userRating)]),
     avgRuntime |-> average([i \in 1..Len(list) |-> OrZero(list[i].runtime)])]

\* ------------------------------------------------------------------ state

Mounted == phase = "running" /\ selectedId # "" /\ isOpen

NoRequests == [id \in Ids |-> 0]

RECURSIVE SumOver(_, _)
SumOver(f, S) ==
    IF S = {} THEN 0
    ELSE LET x == CHOOSE y \in S : TRUE IN f[x] + SumOver(f, S \ {x})

\* Every suspended call, of the mounted MovieDetails or of an earlier one.
InflightTotal == SumOver(inflight, Ids) + orphans

\* fetch(`...&i=${selectedId}`) of the mounted MovieDetails
Issue(f, id) == [f EXCEPT ![id] = @ + 1]

\* watched.find((w) => w.imdbID === selectedId)
watchedMovie(list, id) == \E i \in 1..Len(list) : list[i].imdbID = id

\* Entries a previous session can have stored.
StoredEntry(id, rating) ==
    StringifyEntry(
        [imdbID |-> id, Title |-> DetailOf(id).Title, Year |-> DetailOf(id).Year,
         Poster |-> DetailOf(id).Poster,
         runtime |-> ToNumber(SplitFirst(DetailOf(id).Runtime)),
         imdbRating |-> ToNumber(DetailOf(id).imdbRating),
         userRating |-> rating, countRatingDecisions |-> 1])

StoredItems ==
    {[kind |-> "absent", val |-> <<>>], [kind |-> "corrupt", val |-> <<>>],
     [kind |-> "json", val |-> <<>>],
     [kind |-> "json", val |-> <<StoredEntry("tt1", 8)>>],
     [kind |-> "json", val |-> <<StoredEntry("tt2", 3), StoredEntry("tt1", 8)>>]}

Init ==
    /\ phase = "start"
    /\ storage \in StoredItems
    /\ watched = <<>>
    /\ query = ""
    /\ selectedId = ""
    /\ isOpen = TRUE
    /\ movie = EmptyMovie
    /\ isLoading = FALSE
    /\ userRating = 0
    /\ countRef = 0
    /\ inflight = NoRequests
    /\ orphans = 0
    /\ unhandled = FALSE
    /\ lastOp = "load"

\* ---------------------------------------------------------------- actions

\* The first render of App: the useState initialiser of
\* useLocalStorageState, then its effect, which writes the value back.
AppMount ==
    /\ phase = "start"
    /\ lastOp' = "mount"
    /\ IF ParseThrows(storage)
       THEN /\ phase' = "crashed"
            /\ UNCHANGED <<storage, watched>>
       ELSE /\ phase' = "running"
            /\ watched' = LoadValue(storage, <<>>)
            /\ storage' = JSONStringify(watched')
    /\ UNCHANGED <<query, selectedId, isOpen, movie, isLoading, userRating,
                   countRef, inflight, orphans, unhandled>>

\* The user reloads the page: only localStorage survives.
Reload ==
    /\ phase # "start"
    /\ phase' = "start"
    /\ watched' = <<>>
    /\ query' = ""
    /\ selectedId' = ""
    /\ isOpen' = TRUE
    /\ movie' = EmptyMovie
    /\ isLoading' = FALSE
    /\ userRating' = 0
    /\ countRef' = 0
    /\ inflight' = NoRequests
    /\ orphans' = 0
    /\ unhandled' = FALSE
    /\ lastOp' = "load"
    /\ UNCHANGED storage

\* Search: onChange, and the Enter key handler, which sets "".
SetQuery(q) ==
    /\ phase = "running"
    /\ lastOp' = "query"
    /\ query' = q
    /\ UNCHANGED <<phase, storage, watched, selectedId, isOpen, movie, isLoading,
                   userRating, countRef, inflight, orphans, unhandled>>

\* What a render with the new selectedId and isOpen does to MovieDetails:
\* unmount, mount (fresh state, then the fetch effect), or re-run the fetch
\* effect on a changed selectedId with movie, userRating and countRef kept.
View(newId, newOpen) ==
    LET was == Mounted
        will == newId # "" /\ newOpen
    IN IF ~will
       THEN /\ movie' = EmptyMovie
            /\ isLoading' = FALSE
            /\ userRating' = 0
            /\ countRef' = 0
            /\ inflight' = NoRequests
            /\ orphans' = InflightTotal
       ELSE IF ~was
       THEN /\ InflightTotal < MaxInflight
            /\ movie' = EmptyMovie
            /\ isLoading' = TRUE
            /\ userRating' = 0
            /\ countRef' = 0
            /\ inflight' = Issue(inflight, newId)
            /\ UNCHANGED orphans
       ELSE IF newId # selectedId
       THEN /\ InflightTotal < MaxInflight
            /\ isLoading' = TRUE
            /\ inflight' = Issue(inflight, newId)
            /\ UNCHANGED <<movie, userRating, countRef, orphans>>
       ELSE UNCHANGED <<movie, isLoading, userRating, countRef, inflight, orphans>>

\* Mutant: the setter without the toggle, setSelectedId(id).
NextSelectionNoToggle(cur, id) == id

\* setSelectedId((selectedId) => (selectedId === id ? "" : id))
NextSelection(cur, id) == IF cur = id THEN "" ELSE id

\* Movie: onClick={() => onSelectMovie(movie.imdbID || "")}
handleSelectMovie(id) ==
    /\ phase = "running"
    /\ lastOp' = "select"
    /\ selectedId' = NextSelection(selectedId, id)
    /\ View(selectedId', isOpen)
    /\ UNCHANGED <<phase, storage, watched, query, isOpen, unhandled>>

\* The back button of the details, and the Escape key while they are shown.
handleCloseMovie ==
    /\ Mounted
    /\ lastOp' = "close"
    /\ selectedId' = ""
    /\ View(selectedId', isOpen)
    /\ UNCHANGED <<phase, storage, watched, query, isOpen, unhandled>>

\* Box: setIsOpen((open) => !open); {isOpen && children}
ToggleBox ==
    /\ phase = "running"
    /\ lastOp' = "toggle"
    /\ isOpen' = ~isOpen
    /\ View(selectedId, isOpen')
    /\ UNCHANGED <<phase, storage, watched, query, selectedId, unhandled>>

\* Mutant: the rating controls without the watchedMovie test.
RatingShownUnguarded == Mounted /\ ~isLoading

\* {watchedMovie ? <p>You rated ...</p> : <StarRating ... />}, inside the
\* details that replace the Loader once isLoading is false.
RatingShown == Mounted /\ ~isLoading /\ ~watchedMovie(watched, selectedId)

\* StarRating: onSetRating={setUserRating}, then the effect on [userRating].
SetUserRating(r) ==
    /\ RatingShown
    /\ lastOp' = "rate"
    /\ r # userRating
    /\ countRef < MaxDecisions
    /\ userRating' = r
    /\ countRef' = IF r # 0 THEN countRef + 1 ELSE countRef
    /\ UNCHANGED <<phase, storage, watched, query, selectedId, isOpen, movie,
                   isLoading, inflight, orphans, unhandled>>

newWatchedMovie ==
    [imdbID |-> selectedId, Title |-> movie.Title, Year |-> movie.Year,
     Poster |-> movie.Poster,
     runtime |-> ToNumber(SplitFirst(movie.Runtime)),
     imdbRating |-> ToNumber(movie.imdbRating),
     userRating |-> userRating,
     countRatingDecisions |-> countRef]

\* setWatched((watched) => [...watched, movie])
handleAddWatched(list, entry) == Append(list, entry)

\* {userRating > 0 && <button onClick={handleAdd}>}
AddShown == RatingShown /\ userRating > 0

\* handleAdd: onAddWatched(newWatchedMovie); onCloseMovie(); then the
\* storage effect of the changed list.
handleAdd ==
    /\ AddShown
    /\ lastOp' = "add"
    /\ watched' = handleAddWatched(watched, newWatchedMovie)
    /\ storage' = JSONStringify(watched')
    /\ selectedId' = ""
    /\ View(selectedId', isOpen)
    /\ UNCHANGED <<phase, query, isOpen, unhandled>>

RECURSIVE FilterOut(_, _, _)
\* watched.filter((w) => w.imdbID !== id), from index i on
FilterOut(list, id, i) ==
    IF i > Len(list) THEN <<>>
    ELSE IF list[i].imdbID # id
         THEN <<list[i]>> \o FilterOut(list, id, i + 1)
         ELSE FilterOut(list, id, i + 1)

\* Mutant: the filter with its test inverted, w.imdbID === id.
DeleteWatchedKeepsMatch(list, id) == SelectSeq(list, LAMBDA w : w.imdbID = id)

DeleteWatched(list, id) == FilterOut(list, id, 1)

\* WatchedMovie: onClick={() => onDeleteWatched(movie.imdbID!)}; the list is
\* rendered when nothing is selected and the box is open.
handleDeleteWatched(i) ==
    /\ phase = "running"
    /\ lastOp' = "delete"
    /\ selectedId = ""
    /\ isOpen
    /\ i \in 1..Len(watched)
    /\ watched' = DeleteWatched(watched, watched[i].imdbID)
    /\ storage' = JSONStringify(watched')
    /\ UNCHANGED <<phase, query, selectedId, isOpen, movie, isLoading, userRating,
                   countRef, inflight, orphans, unhandled>>

Payload(id, outcome) == IF outcome = "record" THEN DetailOf(id) ELSE ErrorPayload

\* fetch or res.json() rejects: getMovieDetails has no try/catch and its
\* caller drops the promise.
Rejects(outcome) == outcome \in {"networkError", "badJson"}

\* A suspended getMovieDetails(id) of the mounted MovieDetails runs to its
\* end: setMovie(data); setIsLoading(false), or the rejection leaves the
\* function at the await.
Settle(id, outcome) ==
    /\ phase = "running"
    /\ lastOp' = "settle"
    /\ inflight[id] > 0
    /\ inflight' = [inflight EXCEPT ![id] = @ - 1]
    /\ IF Rejects(outcome)
       THEN /\ unhandled' = TRUE
            /\ UNCHANGED <<movie, isLoading>>
       ELSE /\ movie' = Payload(id, outcome)
            /\ isLoading' = FALSE
            /\ UNCHANGED unhandled
    /\ UNCHANGED <<phase, storage, watched, query, selectedId, isOpen, userRating,
                   countRef, orphans>>

\* The same for a call whose MovieDetails has unmounted: its setMovie and
\* setIsLoading reach no component.
SettleOrphan(outcome) ==
    /\ phase = "running"
    /\ lastOp' = "settle"
    /\ orphans > 0
    /\ orphans' = orphans - 1
    /\ unhandled' = (unhandled \/ Rejects(outcome))
    /\ UNCHANGED <<phase, storage, watched, query, selectedId, isOpen, movie,
                   isLoading, userRating, countRef, inflight>>

Next ==
    \/ AppMount
    \/ Reload
    \/ \E q \in Queries : SetQuery(q)
    \/ \E id \in Ids \cup {""} : handleSelectMovie(id)
    \/ handleCloseMovie
    \/ ToggleBox
    \/ \E r \in Stars : SetUserRating(r)
    \/ handleAdd
    \/ \E i \in 1..Len(watched) : handleDeleteWatched(i)
    \/ \E id \in Ids, outcome \in Outcomes : Settle(id, outcome)
    \/ \E outcome \in Outcomes : SettleOrphan(outcome)

Spec == Init /\ [][Next]_vars

\* ----------------------------------------------------------------- claims

\* C1: a lookup's response that arrives after the selection has moved on to
\* another identifier is discarded: it does not change the detail record.
C1_SupersededResponseDiscarded ==
    [][\A id \in Ids, outcome \in Outcomes :
          (Settle(id, outcome) /\ id # selectedId) => movie' = movie]_vars

\* C2: a failed lookup never escapes as an unhandled rejection.
C2_FailedLookupHandled == ~unhandled

\* C3: while the details are shown, the loading flag is false once every
\* lookup has settled, and true while a lookup for the selected identifier
\* is outstanding.
C3_LoadingFlagLifecycle ==
    Mounted =>
        /\ (\A id \in Ids : inflight[id] = 0) => ~isLoading
        /\ inflight[selectedId] > 0 => isLoading

\* C4: no two entries of the watched list have the same identifier.
C4_WatchedUnique ==
    \A i, j \in 1..Len(watched) :
        i # j => watched[i].imdbID # watched[j].imdbID

\* Add to list has just appended a second entry.
C4_Witness == lastOp = "add" /\ Len(watched) = 2

\* C5: what loading the key gives back is the list that was saved under it,
\* entry by entry and field by field.
C5_RoundTrip == phase = "running" => LoadValue(storage, <<>>) = watched

\* C6: loading the watched list at startup is never fatal.
C6_LoadNeverFatal == lastOp = "mount" => phase = "running"

\* The state the selection is in: "" is NoSelection, anything else is
\* Selected(id) (App renders MovieDetails on a truthy selectedId).
IsSelected(sel, id) == sel = id /\ sel # ""

\* C7 as stated: initially nothing is selected; select(id) leaves Selected(id)
\* for NoSelection and goes to Selected(id) from every other state, also for
\* the "" a movie without identifier passes; close() goes to NoSelection;
\* select(id) twice ends in NoSelection.
C7_SelectionMachine ==
    /\ selectedId = ""
    /\ [][/\ \A id \in Ids \cup {""} :
               handleSelectMovie(id) =>
                   IF IsSelected(selectedId, id) THEN selectedId' = ""
                   ELSE IsSelected(selectedId', id)
          /\ handleCloseMovie => selectedId' = ""]_vars
    /\ [](\A id \in Ids \cup {""} :
             NextSelection(NextSelection(selectedId, id), id) = "")

\* C7 amended: select(id) for an identifier goes to Selected(id) unless that
\* is the state it is in, and then to NoSelection; select("") for a movie
\* without identifier goes to NoSelection from every state; close() goes to
\* NoSelection; select(id) twice ends in NoSelection when it starts outside
\* Selected(id), and in Selected(id) when it starts there.
C7_SelectionMachineAmended ==
    /\ selectedId = ""
    /\ [][/\ \A id \in Ids :
               handleSelectMovie(id) =>
                   IF IsSelected(selectedId, id) THEN selectedId' = ""
                   ELSE IsSelected(selectedId', id)
          /\ handleSelectMovie("") => selectedId' = ""
          /\ handleCloseMovie => selectedId' = ""]_vars
    /\ [](\A id \in Ids \cup {""} :
             NextSelection(NextSelection(selectedId, id), id) =
                 IF IsSelected(selectedId, id) THEN id ELSE "")

\* A click on a listed movie has closed details whose lookup is still out.
C7_Witness == lastOp = "select" /\ selectedId = "" /\ orphans > 0

\* The list without its i-th entry.
RemovedAt(list, i) == SubSeq(list, 1, i - 1) \o SubSeq(list, i + 1, Len(list))

ZeroFill(x) == IF x.t = "number" THEN x.v ELSE 0

RECURSIVE SeqSum(_)
SeqSum(seq) == IF seq = <<>> THEN 0 ELSE Head(seq) + SeqSum(Tail(seq))

\* sum / count, as a fraction
Mean(seq) == [t |-> "number", num |-> SeqSum(seq), den |-> Len(seq)]

\* C9: the summary's count is the length of the list, each average is the
\* zero-filled sum over the count, and the summary of the reloaded list is
\* the summary of the list.
C9_Aggregate ==
    phase = "running" =>
        LET s == WatchedSummary(watched)
            n == Len(watched)
        IN /\ s.count = n
           /\ n > 0 =>
                /\ s.avgUserRating = Mean([i \in 1..n |-> watched[i].userRating])
                /\ s.avgImdbRating = Mean([i \in 1..n |-> ZeroFill(watched[i].imdbRating)])
                /\ s.avgRuntime = Mean([i \in 1..n |-> ZeroFill(watched[i].runtime)])
           /\ WatchedSummary(LoadValue(storage, <<>>)) = s

\* C10: the entry Add to list appends takes its title, year, poster, runtime
\* and critic rating from a payload of the lookup for the identifier it
\* carries.
C10_EntryFromOwnRecord ==
    lastOp = "add" =>
        LET e == watched[Len(watched)]
        IN \E rec \in {DetailOf(e.imdbID), ErrorPayload} :
              /\ e.Title = rec.Title
              /\ e.Year = rec.Year
              /\ e.Poster = rec.Poster
              /\ e.runtime = ToNumber(SplitFirst(rec.Runtime))
              /\ e.imdbRating = ToNumber(rec.imdbRating)

====
